---- MODULE Spec2Model ----
(***************************************************************************)
(* Model of the runtime service of api/handler/v1/runtime.go: the          *)
(* handlers DeploySpecification, RegisterProject and GetJob of             *)
(* runtimeServiceServer and the stream-relay observer jobSyncObserver.     *)
(*                                                                         *)
(* One DeploySpecification or GetJob request is served per behaviour, or a *)
(* bounded run of RegisterProject requests one after the other.  The collaborators (project        *)
(* repository, proto adapter, job service, response stream) are the        *)
(* environment: every outcome they can give is chosen with \E at the step  *)
(* that calls them.  calls records, in order, every call the handler makes *)
(* on a collaborator, with the error it returned (unset for Sync and Send, *)
(* whose results are kept in syncErr and stream).                          *)
(***************************************************************************)
EXTENDS Integers, Sequences, FiniteSets, TLC

\* ------------------------------------------------------------------ bounds
MaxJobs == 2        \* most job definitions in one DeploySpecification request
MaxEvents == 2      \* most events one Sync emits
MaxContexts == 2    \* most execution contexts Sync notifies observers from
MaxRegisters == 2   \* most RegisterProject requests served one after the other
MaxConfig == 2      \* most config items of a task
MaxHooks == 2       \* most hooks of a job
MaxCalls == 2       \* most FromJobSpec calls on one input

\* ------------------------------------------------------------ value domains
ProjectNames == {"humara-projectSpec", "some_other_project"}
JobNames == {"job-1", "job-2"}
\* The job definitions of a request of n jobs, in request order.
BatchNames == <<"job-1", "job-2", "job-3", "job-4">>
Batch(n) == SubSeq(BatchNames, 1, n)

\* ProjectSpec.Config values (a map with the one key "bucket").
Configs == [{"bucket"} -> {"gs://some_folder", "gs://other_folder"}]

\* A Go error value: kind "nil" is the nil error, text is err.Error().
NilErr == [kind |-> "nil", text |-> ""]
ErrNotFound == [kind |-> "NotFound", text |-> "resource not found"]
ErrRepo == [kind |-> "Other", text |-> "repository failure"]
ErrAdapt == [kind |-> "Other", text |-> "cannot adapt job"]
ErrCreate == [kind |-> "Other", text |-> "cannot save job"]
ErrSync == [kind |-> "Other", text |-> "sync failed"]
ErrUpload == [kind |-> "Other", text |-> "upload failed"]
ErrSend == [kind |-> "Other", text |-> "transport is closing"]
ErrMapping == [kind |-> "Other", text |-> "cannot map job"]
ErrSave == [kind |-> "Other", text |-> "cannot save project"]

\* status.Error(codes.Internal, err.Error()); the handlers use no other code.
StatusNone == [code |-> "none", msg |-> ""]
StatusOK == [code |-> "OK", msg |-> ""]
StatusInternal(err) == [code |-> "Internal", msg |-> err.text]

\* progress.Event values Sync may emit: job upload events and events of
\* some other type.
UploadEvents == [type : {"EventJobUpload"}, job : JobNames, err : {NilErr, ErrUpload}]
OtherEvent == [type |-> "Other", job |-> "", err |-> NilErr]
Events == UploadEvents \cup {OtherEvent}

VARIABLES
    rpc,          \* the handler serving the request
    req,          \* the request message
    pc,           \* the handler's position
    cancelled,    \* the caller has cancelled the request context
    cancelIdx,    \* loop index at the moment of cancellation (0: none)
    projects,     \* project repository contents (names)
    jobStore,     \* job repository contents (names)
    projSpec,     \* local projSpec
    idx,          \* loop index over req.jobs
    created,      \* jobs this request persisted with Create, in order
    observers,    \* the observer chain passed to Sync, in Join order
    nctx,         \* number of execution contexts Sync notifies from
    ctx,          \* per context: 0 idle, else index in stream of its Send in progress
    events,       \* events Sync notified to the chain, in order
    stream,       \* Send calls on respStream: [resp, result]
    logged,       \* entries written by obs.log
    syncErr,      \* Sync's return value ("unset" kind until it returns)
    status,       \* the RPC's terminal status
    response,     \* unary response body
    calls,        \* collaborator calls, in order
    progressEvents, \* events delivered to sv.progressObserver, in order
    projectConf,  \* project repository contents: Config of each stored project
    repoLog,      \* Save calls: [project, err, after], after the repository then
    nreq,         \* requests accepted so far
    regResponse,  \* RegisterProject's response body
    mIn,          \* FromJobSpec's input: [project, job]
    mOut,         \* the results of the FromJobSpec calls on mIn, in order
    mGen,         \* calls of the task unit's GenerateDestination
    iServer,      \* the runtimeServiceServer's fields
    iPc,          \* position of each concurrent DeploySpecification call
    iChain,       \* each call's local observers
    iStream,      \* each call's respStream: the messages sent on it
    iStatus,      \* each call's terminal status
    iReq,         \* each call's request message
    iProjSpec,    \* each call's local projSpec
    iIdx,         \* each call's loop index over its jobs
    iCreated,     \* the jobs each call persisted with Create, in order
    iCalls        \* the collaborator calls each call made, in order

\* The variables of RegisterProject.
regVars == <<projectConf, repoLog, nreq, regResponse>>

\* The variables of the metadata adapter.
metaVars == <<mIn, mOut, mGen>>

\* The variables of the DeploySpecification calls served side by side.
isoVars == <<iServer, iPc, iChain, iStream, iStatus, iReq, iProjSpec, iIdx, iCreated, iCalls>>

\* The concurrent DeploySpecification calls, each with its own respStream.
Reqs == {"r1", "r2"}

\* The server as NewRuntimeServiceServer builds it.
ServerFields ==
    [version |-> "v", jobSvc |-> "jobSvc", adapter |-> "adapter",
     projectRepoFactory |-> "projectRepoFactory",
     progressObserver |-> [name |-> "sv.progressObserver", stream |-> "", log |-> ""]]

\* No DeploySpecification calls are served side by side.
NoConcurrentCalls ==
    /\ iServer = ServerFields
    /\ iPc = [r \in Reqs |-> "none"]
    /\ iChain = [r \in Reqs |-> <<>>]
    /\ iStream = [r \in Reqs |-> <<>>]
    /\ iStatus = [r \in Reqs |-> StatusNone]
    /\ iReq = [r \in Reqs |-> [projectName |-> "", jobs |-> <<>>, jobName |-> ""]]
    /\ iProjSpec = [r \in Reqs |-> ""]
    /\ iIdx = [r \in Reqs |-> 1]
    /\ iCreated = [r \in Reqs |-> <<>>]
    /\ iCalls = [r \in Reqs |-> <<>>]

\* The variables no step of DeploySpecification or GetJob writes.
others == <<regVars, metaVars, isoVars>>

vars == <<rpc, req, pc, cancelled, cancelIdx, projects, jobStore, projSpec, idx,
          created, observers, nctx, ctx, events, stream, logged, syncErr,
          status, response, calls, progressEvents, others>>

Unset == [kind |-> "unset", text |-> ""]
NoResponse == [project |-> "", job |-> ""]
Call(op, arg, err) == [op |-> op, arg |-> arg, err |-> err]
CallsOf(op) == SelectSeq(calls, LAMBDA c : c.op = op)

DeployRequests == [projectName : ProjectNames, jobs : {Batch(n) : n \in 0..MaxJobs}, jobName : {""}]
GetJobRequests == [projectName : ProjectNames, jobs : {<<>>}, jobName : JobNames]
\* pb.RegisterProjectRequest: the project's name and config.
RegisterRequests == [projectName : ProjectNames, jobs : {<<>>}, jobName : {""}, config : Configs]
NoRegResponse == [success |-> FALSE, message |-> "<nil>"]

Init ==
    /\ rpc \in {"DeploySpecification", "GetJob", "RegisterProject"}
    /\ req \in CASE rpc = "DeploySpecification" -> DeployRequests
                [] rpc = "GetJob" -> GetJobRequests
                [] rpc = "RegisterProject" -> RegisterRequests
    /\ pc = "resolve"
    /\ cancelled = FALSE
    /\ cancelIdx = 0
    /\ projects = {"humara-projectSpec"}
    /\ jobStore = {"job-1"}
    /\ projSpec = ""
    /\ idx = 1
    /\ created = <<>>
    /\ observers = <<>>
    /\ nctx = 0
    /\ ctx = <<>>
    /\ events = <<>>
    /\ stream = <<>>
    /\ logged = 0
    /\ syncErr = Unset
    /\ status = StatusNone
    /\ response = NoResponse
    /\ calls = <<>>
    /\ progressEvents = <<>>
    /\ projectConf = [n \in {"humara-projectSpec"} |-> [k \in {"bucket"} |-> "gs://some_folder"]]
    /\ repoLog = <<>>
    /\ nreq = 1
    /\ regResponse = NoRegResponse
    /\ mIn = <<>> /\ mOut = <<>> /\ mGen = 0
    /\ NoConcurrentCalls

\* projectRepo.GetByName(name): a project that is not stored is not found; a
\* stored one is returned unless the repository fails.
ProjectLookupErrs(name) == IF name \in projects THEN {NilErr, ErrRepo} ELSE {ErrNotFound, ErrRepo}

\* AfterJob leaving the loop one job early.
AfterJobSkipLast(i) == IF i < Len(req.jobs) THEN "adapt" ELSE "join"

\* After a successful Create of job idx, or straight after the lookup: the
\* position that follows in the range loop of lines 55-65.
AfterJob(i) == IF i <= Len(req.jobs) THEN "adapt" ELSE "join"

\* DeployResolveProject with the check of line 51 left out.
DeployResolveProjectNoCheck(err) ==
    /\ rpc = "DeploySpecification" /\ pc = "resolve"
    /\ calls' = Append(calls, Call("projectRepo.GetByName", req.projectName, err))
    /\ projSpec' = IF err.kind # "nil" THEN "" ELSE req.projectName
    /\ pc' = AfterJob(1)
    /\ UNCHANGED <<progressEvents, others>>
    /\ UNCHANGED <<rpc, req, cancelled, cancelIdx, projects, jobStore, idx, created,
                   observers, nctx, ctx, events, stream, logged, syncErr, status,
                   response>>

\* DeploySpecification, lines 49-53.
DeployResolveProject(err) ==
    /\ rpc = "DeploySpecification" /\ pc = "resolve"
    /\ calls' = Append(calls, Call("projectRepo.GetByName", req.projectName, err))
    /\ IF err.kind # "nil"
       THEN /\ status' = StatusInternal(err)
            /\ pc' = "done"
            /\ UNCHANGED projSpec
       ELSE /\ projSpec' = req.projectName
            /\ pc' = AfterJob(1)
            /\ UNCHANGED status
    /\ UNCHANGED <<progressEvents, others>>
    /\ UNCHANGED <<rpc, req, cancelled, cancelIdx, projects, jobStore, idx, created,
                   observers, nctx, ctx, events, stream, logged, syncErr, response>>

\* DeploySpecification, lines 56-59: adapt job idx of the request.
DeployAdaptJob(err) ==
    /\ rpc = "DeploySpecification" /\ pc = "adapt"
    /\ calls' = Append(calls, Call("adapter.FromJobProto", req.jobs[idx], err))
    /\ IF err.kind # "nil"
       THEN /\ status' = StatusInternal(err)
            /\ pc' = "done"
       ELSE /\ pc' = "create"
            /\ UNCHANGED status
    /\ UNCHANGED <<progressEvents, others>>
    /\ UNCHANGED <<rpc, req, cancelled, cancelIdx, projects, jobStore, projSpec, idx,
                   created, observers, nctx, ctx, events, stream, logged, syncErr,
                   response>>

\* DeployCreateJob with `continue` in the place of the return of line 63.
DeployCreateJobContinue(err) ==
    /\ rpc = "DeploySpecification" /\ pc = "create"
    /\ calls' = Append(calls, Call("jobSvc.Create", req.jobs[idx], err))
    /\ IF err.kind # "nil"
       THEN UNCHANGED <<created, jobStore>>
       ELSE /\ created' = Append(created, req.jobs[idx])
            /\ jobStore' = jobStore \cup {req.jobs[idx]}
    /\ idx' = idx + 1
    /\ pc' = AfterJob(idx + 1)
    /\ UNCHANGED <<progressEvents, others>>
    /\ UNCHANGED <<rpc, req, cancelled, cancelIdx, projects, projSpec, observers,
                   nctx, ctx, events, stream, logged, syncErr, status, response>>

\* DeployCreateJob undoing the jobs created so far when Create fails.
DeployCreateJobRollback(err) ==
    /\ rpc = "DeploySpecification" /\ pc = "create"
    /\ calls' = Append(calls, Call("jobSvc.Create", req.jobs[idx], err))
    /\ IF err.kind # "nil"
       THEN /\ status' = StatusInternal(err)
            /\ pc' = "done"
            /\ created' = <<>>
            /\ jobStore' = jobStore \ {created[i] : i \in 1..Len(created)}
            /\ UNCHANGED idx
       ELSE /\ created' = Append(created, req.jobs[idx])
            /\ jobStore' = jobStore \cup {req.jobs[idx]}
            /\ idx' = idx + 1
            /\ pc' = AfterJob(idx + 1)
            /\ UNCHANGED status
    /\ UNCHANGED <<progressEvents, others>>
    /\ UNCHANGED <<rpc, req, cancelled, cancelIdx, projects, projSpec, observers,
                   nctx, ctx, events, stream, logged, syncErr, response>>

\* DeploySpecification, lines 61-65: persist job idx and go round the loop.
DeployCreateJob(err) ==
    /\ rpc = "DeploySpecification" /\ pc = "create"
    /\ calls' = Append(calls, Call("jobSvc.Create", req.jobs[idx], err))
    /\ IF err.kind # "nil"
       THEN /\ status' = StatusInternal(err)
            /\ pc' = "done"
            /\ UNCHANGED <<created, jobStore, idx>>
       ELSE /\ created' = Append(created, req.jobs[idx])
            /\ jobStore' = jobStore \cup {req.jobs[idx]}
            /\ idx' = idx + 1
            /\ pc' = AfterJob(idx + 1)
            /\ UNCHANGED status
    /\ UNCHANGED <<progressEvents, others>>
    /\ UNCHANGED <<rpc, req, cancelled, cancelIdx, projects, projSpec, observers,
                   nctx, ctx, events, stream, logged, syncErr, response>>

\* The observers DeploySpecification joins to the chain, lines 67-71.  The
\* relay observer is built with its stream field only: its log field keeps
\* the zero value of the interface type, nil.
ProgressObserver == [name |-> "sv.progressObserver", stream |-> "", log |-> ""]
JobSyncObserver == [name |-> "jobSyncObserver", stream |-> "respStream", log |-> "nil"]

\* DeployJoinAndSync joining the relay observer only.
DeployJoinAndSyncRelayOnly(n) ==
    /\ rpc = "DeploySpecification" /\ pc = "join"
    /\ observers' = <<JobSyncObserver>>
    /\ calls' = Append(calls, Call("jobSvc.Sync", projSpec, Unset))
    /\ nctx' = n
    /\ ctx' = [w \in 1..n |-> 0]
    /\ pc' = "sync"
    /\ UNCHANGED <<progressEvents, others>>
    /\ UNCHANGED <<rpc, req, cancelled, cancelIdx, projects, jobStore, projSpec, idx,
                   created, events, stream, logged, syncErr, status, response>>

\* DeploySpecification, lines 67-73: build the chain and call Sync.  n is the
\* number of execution contexts this Sync notifies observers from.
DeployJoinAndSync(n) ==
    /\ rpc = "DeploySpecification" /\ pc = "join"
    /\ observers' = <<ProgressObserver, JobSyncObserver>>
    /\ calls' = Append(calls, Call("jobSvc.Sync", projSpec, Unset))
    /\ nctx' = n
    /\ ctx' = [w \in 1..n |-> 0]
    /\ pc' = "sync"
    /\ UNCHANGED <<progressEvents, others>>
    /\ UNCHANGED <<rpc, req, cancelled, cancelIdx, projects, jobStore, projSpec, idx,
                   created, events, stream, logged, syncErr, status, response>>

\* Ack without the branch of lines 139-142.
AckAlwaysSuccess(evt) == [jobName |-> evt.job, success |-> TRUE, message |-> ""]

\* The acknowledgment jobSyncObserver.Notify builds, lines 135-142.
Ack(evt) ==
    [jobName |-> evt.job,
     success |-> (evt.err.kind = "nil"),
     message |-> IF evt.err.kind # "nil" THEN evt.err.text ELSE ""]

\* Observer o was joined to the chain.
ChainHas(o) == \E i \in 1..Len(observers) : observers[i] = o

\* The relay observer of the chain.
Relay == CHOOSE o \in {observers[i] : i \in 1..Len(observers)} : o.name = "jobSyncObserver"

\* Notify escalating an upload event that carries an error: the handler ends
\* with that error and the event is not relayed.
NotifyEscalating(w, e) ==
    /\ pc = "sync" /\ ctx[w] = 0
    /\ Len(events) < MaxEvents
    /\ events' = Append(events, e)
    /\ IF e.type = "EventJobUpload" /\ e.err.kind # "nil"
       THEN /\ pc' = "done"
            /\ status' = StatusInternal(e.err)
            /\ UNCHANGED <<stream, ctx, calls>>
       ELSE /\ IF e.type = "EventJobUpload"
               THEN /\ stream' = Append(stream, [resp |-> Ack(e), result |-> "pending"])
                    /\ ctx' = [ctx EXCEPT ![w] = Len(stream) + 1]
                    /\ calls' = Append(calls, Call("stream.Send", e.job, Unset))
               ELSE UNCHANGED <<stream, ctx, calls>>
            /\ UNCHANGED <<pc, status>>
    /\ progressEvents' = IF ChainHas(ProgressObserver) THEN Append(progressEvents, e)
                                                            ELSE progressEvents
    /\ UNCHANGED others
    /\ UNCHANGED <<rpc, req, cancelled, cancelIdx, projects, jobStore, projSpec,
                   idx, created, observers, nctx, logged, syncErr, response>>

\* Notify without the type switch: every event is acknowledged.
NotifyAnyEvent(w, e) ==
    /\ pc = "sync" /\ ctx[w] = 0
    /\ Len(events) < MaxEvents
    /\ events' = Append(events, e)
    /\ stream' = Append(stream, [resp |-> Ack(e), result |-> "pending"])
    /\ ctx' = [ctx EXCEPT ![w] = Len(stream) + 1]
    /\ calls' = Append(calls, Call("stream.Send", e.job, Unset))
    /\ progressEvents' = IF ChainHas(ProgressObserver) THEN Append(progressEvents, e)
                                                            ELSE progressEvents
    /\ UNCHANGED others
    /\ UNCHANGED <<rpc, req, pc, cancelled, cancelIdx, projects, jobStore, projSpec,
                   idx, created, observers, nctx, logged, syncErr, status, response>>

\* Sync notifies the chain of event e from context w: the chain hands e to the
\* progress observer, then to the relay observer: jobSyncObserver.Notify,
\* lines 132-144, up to the call of stream.Send.  An event of another type
\* matches no case of the switch and Notify returns.
Notify(w, e) ==
    /\ pc = "sync" /\ ctx[w] = 0
    /\ Len(events) < MaxEvents
    /\ events' = Append(events, e)
    /\ IF e.type = "EventJobUpload"
       THEN /\ stream' = Append(stream, [resp |-> Ack(e), result |-> "pending"])
            /\ ctx' = [ctx EXCEPT ![w] = Len(stream) + 1]
            /\ calls' = Append(calls, Call("stream.Send", e.job, Unset))
       ELSE UNCHANGED <<stream, ctx, calls>>
    /\ progressEvents' = IF ChainHas(ProgressObserver) THEN Append(progressEvents, e)
                                                            ELSE progressEvents
    /\ UNCHANGED others
    /\ UNCHANGED <<rpc, req, pc, cancelled, cancelIdx, projects, jobStore, projSpec,
                   idx, created, observers, nctx, logged, syncErr, status, response>>

\* stream.Send returns err to context w: jobSyncObserver.Notify, lines
\* 144-147.  On an error Notify calls obs.log.Error: with a nil logger the
\* method call on the nil interface value panics, and the panic is recovered
\* by nobody in this file, so the handler never returns a status.
SendReturn(w, err) ==
    /\ pc = "sync" /\ ctx[w] # 0
    /\ stream' = [stream EXCEPT ![ctx[w]].result = IF err.kind = "nil" THEN "ok" ELSE "err"]
    /\ IF err.kind = "nil"
       THEN /\ ctx' = [ctx EXCEPT ![w] = 0]
            /\ UNCHANGED <<pc, logged>>
       ELSE IF Relay.log = "nil"
            THEN /\ pc' = "panic"
                 /\ UNCHANGED <<ctx, logged>>
            ELSE /\ logged' = logged + 1
                 /\ ctx' = [ctx EXCEPT ![w] = 0]
                 /\ UNCHANGED pc
    /\ UNCHANGED <<progressEvents, others>>
    /\ UNCHANGED <<rpc, req, cancelled, cancelIdx, projects, jobStore, projSpec, idx,
                   created, observers, nctx, events, syncErr, status, response, calls>>

\* DeploySyncReturn with the error of Sync dropped.
DeploySyncReturnIgnoringErr(err) ==
    /\ rpc = "DeploySpecification" /\ pc = "sync"
    /\ \A w \in 1..nctx : ctx[w] = 0
    /\ syncErr' = err
    /\ status' = StatusOK
    /\ pc' = "done"
    /\ UNCHANGED <<progressEvents, others>>
    /\ UNCHANGED <<rpc, req, cancelled, cancelIdx, projects, jobStore, projSpec, idx,
                   created, observers, nctx, ctx, events, stream, logged, response,
                   calls>>

\* DeploySpecification, lines 73-77: Sync returns err once no context is
\* inside Notify.
DeploySyncReturn(err) ==
    /\ rpc = "DeploySpecification" /\ pc = "sync"
    /\ \A w \in 1..nctx : ctx[w] = 0
    /\ syncErr' = err
    /\ status' = IF err.kind # "nil" THEN StatusInternal(err) ELSE StatusOK
    /\ pc' = "done"
    /\ UNCHANGED <<progressEvents, others>>
    /\ UNCHANGED <<rpc, req, cancelled, cancelIdx, projects, jobStore, projSpec, idx,
                   created, observers, nctx, ctx, events, stream, logged, response,
                   calls>>

\* The caller cancels the request context (respStream.Context()) while the
\* handler is in the loop of lines 55-65, job idx being the one in hand.
\* DeploySpecification never reads that context, so nothing else changes.
Cancel ==
    /\ rpc = "DeploySpecification"
    /\ pc \in {"adapt", "create"}
    /\ ~cancelled
    /\ cancelled' = TRUE
    /\ cancelIdx' = idx
    /\ UNCHANGED <<progressEvents, others>>
    /\ UNCHANGED <<rpc, req, pc, projects, jobStore, projSpec, idx, created, observers,
                   nctx, ctx, events, stream, logged, syncErr, status, response, calls>>

\* jobSvc.GetByName(name, projSpec): a job that is not stored is not found.
JobLookupErrs(name) == IF name \in jobStore THEN {NilErr, ErrRepo} ELSE {ErrNotFound, ErrRepo}

\* GetJob, lines 93-97.
GetJobResolveProject(err) ==
    /\ rpc = "GetJob" /\ pc = "resolve"
    /\ calls' = Append(calls, Call("projectRepo.GetByName", req.projectName, err))
    /\ IF err.kind # "nil"
       THEN /\ status' = StatusInternal(err)
            /\ pc' = "done"
            /\ UNCHANGED projSpec
       ELSE /\ projSpec' = req.projectName
            /\ pc' = "job"
            /\ UNCHANGED status
    /\ UNCHANGED <<progressEvents, others>>
    /\ UNCHANGED <<rpc, req, cancelled, cancelIdx, projects, jobStore, idx, created,
                   observers, nctx, ctx, events, stream, logged, syncErr, response>>

\* GetJob, lines 99-102.
GetJobLookupJob(err) ==
    /\ rpc = "GetJob" /\ pc = "job"
    /\ calls' = Append(calls, Call("jobSvc.GetByName", req.jobName, err))
    /\ IF err.kind # "nil"
       THEN /\ status' = StatusInternal(err)
            /\ pc' = "done"
       ELSE /\ pc' = "proto"
            /\ UNCHANGED status
    /\ UNCHANGED <<progressEvents, others>>
    /\ UNCHANGED <<rpc, req, cancelled, cancelIdx, projects, jobStore, projSpec, idx,
                   created, observers, nctx, ctx, events, stream, logged, syncErr,
                   response>>

\* GetJob, lines 104-112.
GetJobToProto(err) ==
    /\ rpc = "GetJob" /\ pc = "proto"
    /\ IF err.kind # "nil"
       THEN /\ calls' = Append(calls, Call("adapter.ToJobProto", req.jobName, err))
            /\ status' = StatusInternal(err)
            /\ UNCHANGED response
       ELSE /\ calls' = calls \o <<Call("adapter.ToJobProto", req.jobName, err),
                                   Call("adapter.ToProjectProto", projSpec, NilErr)>>
            /\ response' = [project |-> projSpec, job |-> req.jobName]
            /\ status' = StatusOK
    /\ pc' = "done"
    /\ UNCHANGED <<progressEvents, others>>
    /\ UNCHANGED <<rpc, req, cancelled, cancelIdx, projects, jobStore, projSpec, idx,
                   created, observers, nctx, ctx, events, stream, logged, syncErr>>

\* adapter.FromProjectProto: the wire project as a models.ProjectSpec.
FromProjectProto(p) == [Name |-> p.projectName, Config |-> p.config]

\* projectRepo.Save(p): upsert by project name.  The repository after it.
Save(p) ==
    [names |-> projects \cup {p.Name},
     conf |-> [n \in projects \cup {p.Name} |-> IF n = p.Name THEN p.Config ELSE projectConf[n]]]

\* RegisterProject answering success whatever Save returned.
RegisterProjectIgnoringErr(err) ==
    /\ rpc = "RegisterProject" /\ pc = "resolve"
    /\ LET p == FromProjectProto(req)
           after == IF err.kind # "nil" THEN [names |-> projects, conf |-> projectConf]
                                        ELSE Save(p)
       IN /\ calls' = calls \o <<Call("adapter.FromProjectProto", p.Name, NilErr),
                                  Call("projectRepo.Save", p.Name, err)>>
          /\ projects' = after.names
          /\ projectConf' = after.conf
          /\ repoLog' = Append(repoLog, [project |-> p, err |-> err, after |-> after])
    /\ regResponse' = [success |-> TRUE, message |-> "saved successfully"]
    /\ status' = StatusOK
    /\ pc' = "done"
    /\ UNCHANGED <<rpc, req, cancelled, cancelIdx, jobStore, projSpec, idx, created,
                   observers, nctx, ctx, events, stream, logged, syncErr, response,
                   progressEvents, nreq, metaVars, isoVars>>

\* RegisterProject, lines 81-89.  A Save that fails leaves the repository as
\* it was.
RegisterProject(err) ==
    /\ rpc = "RegisterProject" /\ pc = "resolve"
    /\ LET p == FromProjectProto(req)
           after == IF err.kind # "nil" THEN [names |-> projects, conf |-> projectConf]
                                        ELSE Save(p)
       IN /\ calls' = calls \o <<Call("adapter.FromProjectProto", p.Name, NilErr),
                                  Call("projectRepo.Save", p.Name, err)>>
          /\ projects' = after.names
          /\ projectConf' = after.conf
          /\ repoLog' = Append(repoLog, [project |-> p, err |-> err, after |-> after])
    /\ IF err.kind # "nil"
       THEN /\ status' = StatusInternal(err)
            /\ regResponse' = NoRegResponse
       ELSE /\ status' = StatusOK
            /\ regResponse' = [success |-> TRUE, message |-> "saved successfully"]
    /\ pc' = "done"
    /\ UNCHANGED <<rpc, req, cancelled, cancelIdx, jobStore, projSpec, idx, created,
                   observers, nctx, ctx, events, stream, logged, syncErr, response,
                   progressEvents, nreq, metaVars, isoVars>>

\* The server takes the next RegisterProject request, r, once the one before
\* has returned.
AcceptRegisterProject(r) ==
    /\ rpc = "RegisterProject" /\ pc = "done"
    /\ nreq < MaxRegisters
    /\ nreq' = nreq + 1
    /\ req' = r
    /\ pc' = "resolve"
    /\ status' = StatusNone
    /\ regResponse' = NoRegResponse
    /\ UNCHANGED <<rpc, cancelled, cancelIdx, projects, jobStore, projSpec, idx, created,
                   observers, nctx, ctx, events, stream, logged, syncErr, response,
                   calls, progressEvents, projectConf, repoLog, metaVars, isoVars>>

Next ==
    \/ \E err \in ProjectLookupErrs(req.projectName) : DeployResolveProject(err)
    \/ \E err \in {NilErr, ErrAdapt} : DeployAdaptJob(err)
    \/ \E err \in {NilErr, ErrCreate} : DeployCreateJob(err)
    \/ \E n \in 1..MaxContexts : DeployJoinAndSync(n)
    \/ \E w \in 1..nctx, e \in Events : Notify(w, e)
    \/ \E w \in 1..nctx, err \in {NilErr, ErrSend} : SendReturn(w, err)
    \/ \E err \in {NilErr, ErrSync} : DeploySyncReturn(err)
    \/ Cancel
    \/ \E err \in ProjectLookupErrs(req.projectName) : GetJobResolveProject(err)
    \/ \E err \in JobLookupErrs(req.jobName) : GetJobLookupJob(err)
    \/ \E err \in {NilErr, ErrMapping} : GetJobToProto(err)
    \/ \E err \in {NilErr, ErrSave} : RegisterProject(err)
    \/ \E r \in RegisterRequests : AcceptRegisterProject(r)

Spec == Init /\ [][Next]_vars

\* ------------------------------------------------- metadata adapter (meta)
\* JobAdapter.FromJobSpec, as spec section 4.3 and TestJobAdapter give it.
ErrDestination == [kind |-> "Other", text |-> "cannot resolve destination"]
ErrInvalidDependency == [kind |-> "Other", text |-> "invalid dependency"]

\* models.ProjectSpec values.
ProjectSpecs == [Name : ProjectNames, Config : {[k \in {"bucket"} |-> "gs://some_folder"]}]

\* Task units: the capability values and what GenerateDestination returns.
ExecUnits ==
    {[Name |-> "bq2bq", Image |-> "image", Description |-> "description",
      dest |-> "destination_table", destErr |-> NilErr],
     [Name |-> "bq2bq", Image |-> "image", Description |-> "description",
      dest |-> "", destErr |-> ErrDestination]}

\* Hooks: a unit (capability values) and the hook's own config.
TransporterHook ==
    [Unit |-> [Name |-> "transporter", Image |-> "h_image", Description |-> "h_description",
               Type |-> "post", DependsOn |-> <<"some_value">>],
     Config |-> <<[Name |-> "SAMPLE_CONFIG", Value |-> "200"],
                  [Name |-> "PRODUCER_CONFIG_BOOTSTRAP_SERVERS",
                   Value |-> "{{.GLOBAL__transporterKafkaBroker}}"]>>]
PredatorHook ==
    [Unit |-> [Name |-> "predator", Image |-> "p_image", Description |-> "p_description",
               Type |-> "pre", DependsOn |-> <<"transporter">>],
     Config |-> <<>>]
HookChoices == {TransporterHook, PredatorHook}

ConfigItems == {[Name |-> "do", Value |-> "this"], [Name |-> "also", Value |-> "that"]}

\* Sequences over S of length at most n.
SeqUpTo(S, n) == UNION {[1..k -> S] : k \in 0..n}

\* JobSpecDependency values for the dependency on job k: Project "" is nil and
\* Job "" is a job without a resolvable name.  A dependency with a project is
\* typed Inter, one without is typed Intra (invariant of spec section 3).
DependencyChoices(k) ==
    {[Project |-> "", Job |-> k, Type |-> "Intra"],
     [Project |-> "", Job |-> "", Type |-> "Intra"]}
    \cup [Project : ProjectNames, Job : {k}, Type : {"Inter"}]
DependencyKeys == {"job-2", "job-3"}
DependencyMaps ==
    UNION {{d \in [K -> UNION {DependencyChoices(k) : k \in K}] :
              \A k \in K : d[k] \in DependencyChoices(k)} : K \in SUBSET DependencyKeys}

\* models.JobSpec values: the fields FromJobSpec passes on unchanged are those
\* of the test.
JobSpecs ==
    [Name : JobNames, Owner : {"mee@mee"}, Version : {100},
     Labels : {<<[Name |-> "l1", Value |-> "lv1"]>>},
     Behavior : {[CatchUp |-> TRUE, DependsOnPast |-> FALSE]},
     Schedule : {[StartDate |-> "2000-11-11", Interval |-> "* * * * *"]},
     Task : [Unit : ExecUnits, Config : SeqUpTo(ConfigItems, MaxConfig), Priority : {2000},
             Window : {[Size |-> "1h", Offset |-> "0", TruncateTo |-> "d"]}],
     Assets : {[n \in {"query.sql"} |-> "select * from 1"]},
     Dependencies : DependencyMaps,
     Hooks : SeqUpTo(HookChoices, MaxHooks)]

\* The orders in which a range over the map m can visit its keys.
KeyOrders(m) ==
    {o \in [1..Cardinality(DOMAIN m) -> DOMAIN m] : \A i, j \in DOMAIN o : i # j => o[i] # o[j]}

\* Urn without the project.
UrnOfJobOnly(project, job) == "job/" \o job.Name

\* Step 1: the job's URN.
Urn(project, job) == project.Name \o "::job/" \o job.Name

\* Unit.GenerateDestination(unitData): what the unit answers.
GenerateDestination(unit, unitData) == [dest |-> unit.dest, err |-> unit.destErr]

\* FlattenConfig building its list back to front.
FlattenConfigReversed(config) ==
    [i \in 1..Len(config) |-> [Name |-> config[Len(config) + 1 - i].Name,
                               Value |-> config[Len(config) + 1 - i].Value]]

\* Steps 3 and 5: a config as a list of name/value items, in source order.
FlattenConfig(config) ==
    [i \in 1..Len(config) |-> [Name |-> config[i].Name, Value |-> config[i].Value]]

\* dep.Type.String().
TypeString(t) == IF t = "Inter" THEN "inter" ELSE "intra"

\* FlattenDependency resolving every tenant to the current project.
FlattenDependencySameTenant(project, dep) ==
    [Tenant |-> project.Name, Job |-> dep.Job, Type |-> TypeString(dep.Type)]

\* Step 4: one dependency entry flattened.
FlattenDependency(project, dep) ==
    [Tenant |-> IF dep.Project # "" THEN dep.Project ELSE project.Name,
     Job |-> dep.Job,
     Type |-> TypeString(dep.Type)]

\* Step 4: a dependency with neither a job name nor a project.
InvalidDependency(dep) == dep.Job = "" /\ dep.Project = ""

\* Step 5: the hooks flattened, in the order of job.Hooks.
FlattenHooks(hooks) ==
    [i \in 1..Len(hooks) |->
        [Name |-> hooks[i].Unit.Name, Image |-> hooks[i].Unit.Image,
         Description |-> hooks[i].Unit.Description,
         Config |-> FlattenConfig(hooks[i].Config),
         Type |-> hooks[i].Unit.Type, DependsOn |-> hooks[i].Unit.DependsOn]]

\* No metadata (returned with an error).
NoMetadata == [Urn |-> "<nil>"]

\* The metadata of steps 1-5, dest being the destination and ord the order
\* in which the Dependencies map is visited.
Metadata(project, job, dest, ord) ==
    [Urn |-> Urn(project, job), Name |-> job.Name, Tenant |-> project.Name,
     Version |-> job.Version, Description |-> "", Labels |-> job.Labels,
     Owner |-> job.Owner,
     Task |-> [Name |-> job.Task.Unit.Name, Image |-> job.Task.Unit.Image,
               Description |-> job.Task.Unit.Description, Destination |-> dest,
               Config |-> FlattenConfig(job.Task.Config),
               Window |-> job.Task.Window, Priority |-> job.Task.Priority],
     Schedule |-> job.Schedule, Behavior |-> job.Behavior,
     Dependencies |-> [i \in 1..Len(ord) |-> FlattenDependency(project, job.Dependencies[ord[i]])],
     Hooks |-> FlattenHooks(job.Hooks)]

\* FromJobSpec returning what it has built so far together with the error.
FromJobSpecPartial(project, job, ord) ==
    LET gen == GenerateDestination(job.Task.Unit,
                                   [Config |-> job.Task.Config, Assets |-> job.Assets])
    IN IF gen.err.kind # "nil"
       THEN [meta |-> Metadata(project, job, gen.dest, ord), err |-> gen.err, genCalls |-> 1]
       ELSE IF \E k \in DOMAIN job.Dependencies : InvalidDependency(job.Dependencies[k])
       THEN [meta |-> NoMetadata, err |-> ErrInvalidDependency, genCalls |-> 1]
       ELSE [meta |-> Metadata(project, job, gen.dest, ord), err |-> NilErr, genCalls |-> 1]

\* FromJobSpec(project, job): the metadata and no error, or no metadata and the
\* error.  genCalls counts the calls of GenerateDestination it made.
FromJobSpec(project, job, ord) ==
    LET gen == GenerateDestination(job.Task.Unit,
                                   [Config |-> job.Task.Config, Assets |-> job.Assets])
    IN IF gen.err.kind # "nil"
       THEN [meta |-> NoMetadata, err |-> gen.err, genCalls |-> 1]
       ELSE IF \E k \in DOMAIN job.Dependencies : InvalidDependency(job.Dependencies[k])
       THEN [meta |-> NoMetadata, err |-> ErrInvalidDependency, genCalls |-> 1]
       ELSE [meta |-> Metadata(project, job, gen.dest, ord), err |-> NilErr, genCalls |-> 1]

\* The runtime service's variables while the adapter is exercised: no request.
NoRequest ==
    /\ rpc = "none"
    /\ req = [projectName |-> "", jobs |-> <<>>, jobName |-> ""]
    /\ pc = "done"
    /\ cancelled = FALSE /\ cancelIdx = 0
    /\ projects = {"humara-projectSpec"}
    /\ jobStore = {"job-1"}
    /\ projSpec = "" /\ idx = 1 /\ created = <<>>
    /\ observers = <<>> /\ nctx = 0 /\ ctx = <<>>
    /\ events = <<>> /\ stream = <<>> /\ logged = 0
    /\ syncErr = Unset /\ status = StatusNone /\ response = NoResponse
    /\ calls = <<>> /\ progressEvents = <<>>
    /\ projectConf = [n \in {"humara-projectSpec"} |-> [k \in {"bucket"} |-> "gs://some_folder"]]
    /\ repoLog = <<>> /\ nreq = 1 /\ regResponse = NoRegResponse

InitMeta ==
    /\ NoRequest
    /\ NoConcurrentCalls
    /\ mIn \in [project : ProjectSpecs, job : JobSpecs]
    /\ mOut = <<>>
    /\ mGen = 0

\* One call of FromJobSpec on the input, the Dependencies map being visited
\* in order ord.
CallFromJobSpec(ord) ==
    /\ rpc = "none"
    /\ Len(mOut) < MaxCalls
    /\ LET r == FromJobSpec(mIn.project, mIn.job, ord)
       IN /\ mOut' = Append(mOut, [meta |-> r.meta, err |-> r.err])
          /\ mGen' = mGen + r.genCalls
    /\ UNCHANGED <<mIn, regVars, isoVars, progressEvents>>
    /\ UNCHANGED <<rpc, req, pc, cancelled, cancelIdx, projects, jobStore, projSpec, idx,
                   created, observers, nctx, ctx, events, stream, logged, syncErr,
                   status, response, calls>>

NextMeta == \E ord \in KeyOrders(mIn.job.Dependencies) : CallFromJobSpec(ord)

SpecMeta == InitMeta /\ [][NextMeta]_vars

\* ------------------------------------- DeploySpecification calls side by side
\* The relay observer bound to one stream whatever the call.
JobSyncObserverOnFirstStream(r) == [name |-> "jobSyncObserver", stream |-> "r1", log |-> "nil"]

\* DeploySpecification, lines 69-71: the relay observer of call r, bound to
\* r's respStream.
JobSyncObserverOf(r) == [name |-> "jobSyncObserver", stream |-> r, log |-> "nil"]

InitIso ==
    /\ NoRequest
    /\ mIn = <<>> /\ mOut = <<>> /\ mGen = 0
    /\ iServer = ServerFields
    /\ iPc = [r \in Reqs |-> "resolve"]
    /\ iChain = [r \in Reqs |-> <<>>]
    /\ iStream = [r \in Reqs |-> <<>>]
    /\ iStatus = [r \in Reqs |-> StatusNone]
    /\ iReq \in [Reqs -> [projectName : {"humara-projectSpec"},
                          jobs : {Batch(n) : n \in 1..MaxJobs}, jobName : {""}]]
    /\ iProjSpec = [r \in Reqs |-> ""]
    /\ iIdx = [r \in Reqs |-> 1]
    /\ iCreated = [r \in Reqs |-> <<>>]
    /\ iCalls = [r \in Reqs |-> <<>>]

\* What no step of the calls served side by side writes: the variables of
\* the call served alone, the project repository, RegisterProject's and the
\* adapter's.
isoFrame ==
    <<rpc, req, pc, cancelled, cancelIdx, projects, projSpec, idx, created,
      observers, nctx, ctx, events, stream, logged, syncErr, status, response, calls,
      regVars, metaVars>>

\* The position of call r after job i - 1 of its range loop, lines 55-65.
IsoAfterJob(r, i) == IF i <= Len(iReq[r].jobs) THEN "adapt" ELSE "join"

\* DeploySpecification, lines 49-53, for call r.
IsoResolveProject(r, err) ==
    /\ iPc[r] = "resolve"
    /\ iCalls' = [iCalls EXCEPT ![r] =
                    Append(@, Call("projectRepo.GetByName", iReq[r].projectName, err))]
    /\ IF err.kind # "nil"
       THEN /\ iStatus' = [iStatus EXCEPT ![r] = StatusInternal(err)]
            /\ iPc' = [iPc EXCEPT ![r] = "done"]
            /\ UNCHANGED iProjSpec
       ELSE /\ iProjSpec' = [iProjSpec EXCEPT ![r] = iReq[r].projectName]
            /\ iPc' = [iPc EXCEPT ![r] = IsoAfterJob(r, 1)]
            /\ UNCHANGED iStatus
    /\ UNCHANGED <<iServer, iChain, iStream, iReq, iIdx, iCreated, jobStore,
                   progressEvents, isoFrame>>

\* DeploySpecification, lines 56-59, for call r: adapt job iIdx[r].
IsoAdaptJob(r, err) ==
    /\ iPc[r] = "adapt"
    /\ iCalls' = [iCalls EXCEPT ![r] =
                    Append(@, Call("adapter.FromJobProto", iReq[r].jobs[iIdx[r]], err))]
    /\ IF err.kind # "nil"
       THEN /\ iStatus' = [iStatus EXCEPT ![r] = StatusInternal(err)]
            /\ iPc' = [iPc EXCEPT ![r] = "done"]
       ELSE /\ iPc' = [iPc EXCEPT ![r] = "create"]
            /\ UNCHANGED iStatus
    /\ UNCHANGED <<iServer, iChain, iStream, iReq, iProjSpec, iIdx, iCreated, jobStore,
                   progressEvents, isoFrame>>

\* DeploySpecification, lines 61-64, for call r: create job iIdx[r] in the
\* job store the calls share.
IsoCreateJob(r, err) ==
    /\ iPc[r] = "create"
    /\ iCalls' = [iCalls EXCEPT ![r] =
                    Append(@, Call("jobSvc.Create", iReq[r].jobs[iIdx[r]], err))]
    /\ IF err.kind # "nil"
       THEN /\ iStatus' = [iStatus EXCEPT ![r] = StatusInternal(err)]
            /\ iPc' = [iPc EXCEPT ![r] = "done"]
            /\ UNCHANGED <<iCreated, jobStore, iIdx>>
       ELSE /\ iCreated' = [iCreated EXCEPT ![r] = Append(@, iReq[r].jobs[iIdx[r]])]
            /\ jobStore' = jobStore \cup {iReq[r].jobs[iIdx[r]]}
            /\ iIdx' = [iIdx EXCEPT ![r] = @ + 1]
            /\ iPc' = [iPc EXCEPT ![r] = IsoAfterJob(r, iIdx[r] + 1)]
            /\ UNCHANGED iStatus
    /\ UNCHANGED <<iServer, iChain, iStream, iReq, iProjSpec, progressEvents, isoFrame>>

\* DeploySpecification, lines 67-73, for call r: a new chain, the server's
\* progress observer and a new relay observer joined, passed to Sync.
IsoJoinAndSync(r) ==
    /\ iPc[r] = "join"
    /\ iChain' = [iChain EXCEPT ![r] = <<iServer.progressObserver, JobSyncObserverOf(r)>>]
    /\ iCalls' = [iCalls EXCEPT ![r] = Append(@, Call("jobSvc.Sync", iProjSpec[r], Unset))]
    /\ iPc' = [iPc EXCEPT ![r] = "sync"]
    /\ UNCHANGED <<iServer, iStream, iStatus, iReq, iProjSpec, iIdx, iCreated, jobStore,
                   progressEvents, isoFrame>>

\* The streams after message msg was handed to Send by every relay observer
\* of chain from position i on.
RECURSIVE Relayed(_, _, _, _)
Relayed(streams, chain, i, msg) ==
    IF i > Len(chain) THEN streams
    ELSE Relayed(IF chain[i].name = "jobSyncObserver"
                 THEN [streams EXCEPT ![chain[i].stream] = Append(@, msg)]
                 ELSE streams,
                 chain, i + 1, msg)

\* The Sends of call r's Sync that have not returned: one blocked execution
\* context each.
PendingOf(r) ==
    {<<q, i>> \in Reqs \X (1..MaxEvents) :
        /\ i <= Len(iStream[q])
        /\ iStream[q][i].from = r
        /\ iStream[q][i].result = "pending"}

\* Notify of the chain call r gave to Sync, for event e, on a context of
\* that Sync that is not inside Notify: the progress observer is notified,
\* then jobSyncObserver.Notify runs lines 132-144 up to the call of
\* stream.Send, which blocks.
IsoNotify(r, e) ==
    /\ iPc[r] = "sync"
    /\ Cardinality(PendingOf(r)) < MaxContexts
    /\ Len(progressEvents) < MaxEvents
    /\ progressEvents' = Append(progressEvents, e)
    /\ IF e.type = "EventJobUpload"
       THEN /\ iStream' = Relayed(iStream, iChain[r], 1,
                                  [resp |-> Ack(e), from |-> r, result |-> "pending"])
            /\ iCalls' = [iCalls EXCEPT ![r] = Append(@, Call("stream.Send", e.job, Unset))]
       ELSE UNCHANGED <<iStream, iCalls>>
    /\ UNCHANGED <<iServer, iPc, iChain, iStatus, iReq, iProjSpec, iIdx, iCreated, jobStore,
                   isoFrame>>

\* jobSyncObserver.Notify, lines 144-146: the Send of message i on stream q
\* returns err.  An error reaches the nil logger of line 145 and the panic
\* ends the process, with it every call that has not returned.
IsoSendReturn(q, i, err) ==
    /\ i <= Len(iStream[q])
    /\ iStream[q][i].result = "pending"
    /\ iPc[iStream[q][i].from] = "sync"
    /\ iStream' = [iStream EXCEPT ![q][i].result = IF err.kind = "nil" THEN "ok" ELSE "err"]
    /\ iPc' = IF err.kind = "nil" THEN iPc
              ELSE [c \in Reqs |-> IF iPc[c] = "done" THEN "done" ELSE "panic"]
    /\ UNCHANGED <<iServer, iChain, iStatus, iReq, iProjSpec, iIdx, iCreated, iCalls,
                   jobStore, progressEvents, isoFrame>>

\* DeploySpecification, lines 73-77, for call r: Sync returns err once none
\* of its contexts is inside Notify, the handler returns and its local chain
\* is gone.
IsoSyncReturn(r, err) ==
    /\ iPc[r] = "sync"
    /\ PendingOf(r) = {}
    /\ iStatus' = [iStatus EXCEPT ![r] = IF err.kind # "nil" THEN StatusInternal(err)
                                                              ELSE StatusOK]
    /\ iPc' = [iPc EXCEPT ![r] = "done"]
    /\ iChain' = [iChain EXCEPT ![r] = <<>>]
    /\ UNCHANGED <<iServer, iStream, iReq, iProjSpec, iIdx, iCreated, iCalls, jobStore,
                   progressEvents, isoFrame>>

NextIso ==
    \/ \E r \in Reqs : \E err \in ProjectLookupErrs(iReq[r].projectName) :
            IsoResolveProject(r, err)
    \/ \E r \in Reqs, err \in {NilErr, ErrAdapt} : IsoAdaptJob(r, err)
    \/ \E r \in Reqs, err \in {NilErr, ErrCreate} : IsoCreateJob(r, err)
    \/ \E r \in Reqs : IsoJoinAndSync(r)
    \/ \E r \in Reqs, e \in Events : IsoNotify(r, e)
    \/ \E q \in Reqs, i \in 1..MaxEvents, err \in {NilErr, ErrSend} : IsoSendReturn(q, i, err)
    \/ \E r \in Reqs, err \in {NilErr, ErrSync} : IsoSyncReturn(r, err)

SpecIso == InitIso /\ [][NextIso]_vars

\* The observers held by some call's chain.
Chained == UNION {{iChain[r][i] : i \in 1..Len(iChain[r])} : r \in Reqs}

\* C20: every message on a call's response stream was relayed for an event of
\* that call's own Sync; a call in Sync has a chain of its own with the
\* server's progress observer and the relay bound to its own stream, and no
\* other chain holds that relay; the server's fields stay as constructed and
\* after a call has returned no chain holds its relay.
C20_StreamsIsolated ==
    /\ \A r \in Reqs : \A i \in 1..Len(iStream[r]) : iStream[r][i].from = r
    /\ \A r \in Reqs :
        /\ iPc[r] = "sync" => iChain[r] = <<ServerFields.progressObserver,
                                            [name |-> "jobSyncObserver", stream |-> r,
                                             log |-> "nil"]>>
        /\ \A q \in Reqs \ {r} : \A i \in 1..Len(iChain[q]) : iChain[q][i].stream # r
        /\ iPc[r] = "done" => /\ iChain[r] = <<>>
                              /\ \A o \in Chained : o.stream # r
    /\ iServer = ServerFields

\* Call r1 has returned OK and call r2 is still in Sync; both streams carry
\* acknowledgments, each of its own call.
C20_Witness ==
    /\ iPc["r1"] = "done" /\ iStatus["r1"] = StatusOK
    /\ iPc["r2"] = "sync"
    /\ Len(iStream["r1"]) >= 1 /\ iStream["r1"][1].from = "r1"
    /\ Len(iStream["r2"]) >= 1 /\ iStream["r2"][1].from = "r2"

\* ------------------------------------------------------------------ claims
Deploy == rpc = "DeploySpecification"
Failed(c) == c.err.kind \notin {"nil", "unset"}
TerminalError == status.code \notin {"none", "OK"}
Adapted == CallsOf("adapter.FromJobProto")
Creates == CallsOf("jobSvc.Create")
SyncCalls == CallsOf("jobSvc.Sync")
Sends == CallsOf("stream.Send")

\* C1: in DeploySpecification a failed FromJobProto or Create is the last
\* collaborator call of the request (no later job is adapted or created, Sync
\* is not invoked, nothing is sent on the stream) and the RPC has ended with
\* a terminal error carrying that failure.
C1_JobFailureIsRequestFatal ==
    \A j \in 1..Len(calls) :
        (Deploy /\ calls[j].op \in {"adapter.FromJobProto", "jobSvc.Create"} /\ Failed(calls[j]))
        => /\ j = Len(calls)
           /\ pc = "done"
           /\ TerminalError /\ status.msg = calls[j].err.text
           /\ SyncCalls = <<>> /\ Sends = <<>> /\ stream = <<>>

\* Create failed for the second job of a batch of two, the first being persisted.
C1_Witness ==
    /\ Deploy /\ Len(req.jobs) = 2 /\ created = <<"job-1">>
    /\ Len(calls) = 5 /\ calls[5].op = "jobSvc.Create" /\ Failed(calls[5])
    /\ pc = "done"

\* C2: in DeploySpecification a failed project lookup is the only collaborator
\* call of the request (nothing adapted, created, synced or sent) and the RPC
\* has ended with a terminal error.
C2_ProjectLookupFailureIsFatal ==
    (Deploy /\ Len(calls) >= 1 /\ Failed(calls[1]))
    => /\ Len(calls) = 1
       /\ pc = "done"
       /\ TerminalError /\ status.msg = calls[1].err.text
       /\ created = <<>> /\ stream = <<>>

\* A batch of two jobs deployed to a project the repository does not hold.
C2_Witness ==
    /\ Deploy /\ req.projectName \notin projects /\ Len(req.jobs) = 2
    /\ Len(calls) = 1 /\ calls[1].err = ErrNotFound /\ pc = "done"

FailedSends == {i \in 1..Len(stream) : stream[i].result = "err"}
Uploads == SelectSeq(events, LAMBDA e : e.type = "EventJobUpload")
SyncReturned == syncErr.kind # "unset"

\* C3: a failed Send is logged and nothing more: the Notify that made it has
\* returned normally (the sync loop is not aborted, so later events can still
\* be relayed), and once the handler has returned its status is the one
\* Sync's return value gives.
C3_SendFailureLoggedNotEscalated ==
    /\ pc # "panic"
    /\ logged = Cardinality(FailedSends)
    /\ \A i \in FailedSends : \A w \in 1..nctx : ctx[w] # i
    /\ (Deploy /\ pc = "done" /\ SyncReturned)
       => status = (IF syncErr.kind = "nil" THEN StatusOK ELSE StatusInternal(syncErr))

\* C4: DeploySpecification ends successfully only when Sync has returned nil;
\* an error returned by Sync is the RPC's terminal error; once Sync is
\* invoked nothing else gives a terminal error, in particular no upload event
\* carrying an error; and the sync loop stops relaying only when a Send
\* failed, never because an event carried an error.
C4_OnlySyncErrorIsTerminal ==
    Deploy =>
    /\ (status = StatusOK => (SyncCalls # <<>> /\ syncErr = NilErr /\ pc = "done"))
    /\ ((SyncReturned /\ syncErr.kind # "nil") => status = StatusInternal(syncErr))
    /\ ((SyncCalls # <<>> /\ status # StatusNone) => (SyncReturned /\ pc = "done"))
    /\ ((SyncCalls # <<>> /\ TerminalError) => (syncErr.kind = "Other" /\ status.msg = syncErr.text))
    /\ (pc = "panic" => FailedSends # {})

\* Sync emitted a failure event for job-1 and then a success event for its
\* sibling job-2; both were acknowledged and the RPC completed cleanly.
C4_Witness ==
    /\ Deploy /\ pc = "done" /\ status = StatusOK
    /\ Len(stream) = 2
    /\ stream[1] = [resp |-> [jobName |-> "job-1", success |-> FALSE, message |-> "upload failed"],
                    result |-> "ok"]
    /\ stream[2] = [resp |-> [jobName |-> "job-2", success |-> TRUE, message |-> ""],
                    result |-> "ok"]

\* Number of elements of sequence s that satisfy Test.
Count(s, Test(_)) == Cardinality({i \in 1..Len(s) : Test(s[i])})

\* C5: every upload event notified to the relay observer has caused exactly
\* one Send, of the acknowledgment with the event's job name, success exactly
\* when the event's Err is nil, and the Err text (empty on success) as
\* message; when Sync notifies from one context only, the acknowledgments are
\* in the order of the events.
C5_OneAckPerUploadEvent ==
    /\ Len(stream) = Len(Uploads) /\ Len(Sends) = Len(Uploads)
    /\ \A e \in UploadEvents :
          Count(Uploads, LAMBDA x : x = e)
          = Count(stream, LAMBDA x : /\ x.resp.jobName = e.job
                                     /\ x.resp.success = (e.err.kind = "nil")
                                     /\ x.resp.message = e.err.text)
    /\ nctx = 1 =>
          \A i \in 1..Len(stream) :
              /\ stream[i].resp.jobName = Uploads[i].job
              /\ stream[i].resp.success = (Uploads[i].err.kind = "nil")
              /\ stream[i].resp.message
                    = (IF Uploads[i].err.kind = "nil" THEN "" ELSE Uploads[i].err.text)
              /\ Sends[i].arg = Uploads[i].job

\* From one context Sync emitted a failure for job-2, then a success for
\* job-1: two acknowledgments, in that order.
C5_Witness ==
    /\ nctx = 1 /\ Len(events) = 2 /\ Len(stream) = 2
    /\ events[1].job = "job-2" /\ events[1].err = ErrUpload
    /\ events[2].job = "job-1" /\ events[2].err = NilErr
    /\ stream[1].resp = [jobName |-> "job-2", success |-> FALSE, message |-> "upload failed"]
    /\ stream[2].resp = [jobName |-> "job-1", success |-> TRUE, message |-> ""]

\* C6 as stated: a finished DeploySpecification either ended with a terminal
\* error having streamed no acknowledgment, or streamed its acknowledgments
\* and completed cleanly; never acknowledgments and then a terminal error.
C6_ErrorOrAcksThenSuccess ==
    (Deploy /\ pc = "done")
    => \/ TerminalError /\ stream = <<>>
       \/ status = StatusOK

\* C6 amended: a DeploySpecification that has returned ended with a terminal
\* error or cleanly; acknowledgments are sent only once Sync is invoked, so a
\* terminal error of the project lookup, of FromJobProto or of Create comes
\* with no acknowledgment; after acknowledgments the request ends cleanly
\* when Sync returned nil and with a terminal error exactly when Sync itself
\* returned an error.
C6_AcksOnlyDuringSync ==
    Deploy =>
    /\ (pc = "done" => (TerminalError \/ status = StatusOK))
    /\ (stream # <<>> => SyncCalls # <<>>)
    /\ ((TerminalError /\ ~SyncReturned) => (stream = <<>> /\ SyncCalls = <<>>))
    /\ ((pc = "done" /\ stream # <<>>)
        => /\ SyncReturned
           /\ (status = StatusOK) = (syncErr = NilErr)
           /\ TerminalError = (syncErr.kind = "Other"))

\* Sync relayed an acknowledgment and then returned an error: the caller got
\* an acknowledgment followed by a terminal error.
C6_Witness ==
    /\ Deploy /\ pc = "done" /\ TerminalError
    /\ Len(stream) >= 1 /\ stream[1].result = "ok"
    /\ syncErr = ErrSync

\* C7: no two Send calls on the response stream are in progress at once.
C7_SingleWriter ==
    Cardinality({w \in 1..nctx : ctx[w] # 0}) <= 1

\* C8: once the caller has cancelled during the loop, a job of the batch
\* still being left after the one in hand, and the handler has come to the
\* next per-job boundary, the RPC has ended with a cancellation
\* status, no job after the one in hand was adapted or created, Sync was not
\* invoked, and the jobs created so far are still persisted.
C8_CancelStopsAtJobBoundary ==
    (Deploy /\ cancelled /\ cancelIdx < Len(req.jobs) /\ idx > cancelIdx)
    => /\ pc = "done" /\ status.code = "Canceled"
       /\ Len(Adapted) <= cancelIdx /\ Len(Creates) <= cancelIdx
       /\ SyncCalls = <<>>
       /\ \A i \in 1..Len(created) : created[i] \in jobStore

\* The status of a NotFoundError (spec 7), which no line of the handlers
\* returns.
StatusNotFound(err) == [code |-> "NotFound", msg |-> err.text]

\* C9: in GetJob a failed project lookup is the only collaborator call (no
\* jobSvc.GetByName, no ToJobProto), no response body is returned, and the
\* RPC has ended with the lookup's error; when the project is unknown that
\* error is returned as a NotFoundError.
C9_UnknownProjectIsNotFoundBeforeJobLookup ==
    (rpc = "GetJob" /\ Len(calls) >= 1 /\ Failed(calls[1]))
    => /\ Len(calls) = 1
       /\ CallsOf("jobSvc.GetByName") = <<>> /\ CallsOf("adapter.ToJobProto") = <<>>
       /\ pc = "done"
       /\ response = NoResponse
       /\ TerminalError /\ status.msg = calls[1].err.text
       /\ calls[1].err.kind = "NotFound" => status = StatusNotFound(calls[1].err)

\* C10: when GetJob ends on a not-found project or job, its status code is
\* not the one GetJob returns for a repository failure or a mapping failure.
C10_NotFoundStatusDistinct ==
    (rpc = "GetJob" /\ pc = "done" /\ \E j \in 1..Len(calls) : calls[j].err.kind = "NotFound")
    => \A e \in {ErrRepo, ErrMapping} : status.code # StatusInternal(e).code

Saves == CallsOf("projectRepo.Save")
LastSave == repoLog[Len(repoLog)]

\* C11: RegisterProject calls Save exactly once per request, with the adapted
\* project; a successful Save upserts the project and is answered with
\* {success: true, message} and no error, a failed Save with a terminal error
\* and no response body; registering the same project twice in a row leaves
\* the repository as the first registration left it.
C11_RegisterIsIdempotentUpsert ==
    rpc = "RegisterProject" =>
    /\ Len(Saves) = Len(repoLog)
    /\ Len(repoLog) = (IF pc = "done" THEN nreq ELSE nreq - 1)
    /\ pc = "done" =>
         /\ LastSave.project = [Name |-> req.projectName, Config |-> req.config]
         /\ IF LastSave.err.kind = "nil"
            THEN /\ status = StatusOK
                 /\ regResponse = [success |-> TRUE, message |-> "saved successfully"]
                 /\ req.projectName \in projects
                 /\ projectConf[req.projectName] = req.config
            ELSE /\ TerminalError /\ status.msg = LastSave.err.text
                 /\ regResponse = NoRegResponse
    /\ \A i \in 1..(Len(repoLog) - 1) :
         (/\ repoLog[i].err.kind = "nil" /\ repoLog[i + 1].err.kind = "nil"
          /\ repoLog[i].project = repoLog[i + 1].project)
         => repoLog[i + 1].after = repoLog[i].after

\* A project not yet stored was registered twice in a row, both Saves
\* succeeding.
C11_Witness ==
    /\ rpc = "RegisterProject" /\ pc = "done" /\ nreq = 2
    /\ Len(repoLog) = 2
    /\ repoLog[1].project.Name = "some_other_project"
    /\ repoLog[1].project = repoLog[2].project
    /\ repoLog[1].err = NilErr /\ repoLog[2].err = NilErr
    /\ regResponse.success

\* C12: a step in which the relay observer is notified of an event that is
\* not a job upload event sends nothing on the stream, reports no error and
\* leaves the stream, the contexts and the request's outcome as they were.
C12_OtherEventsIgnored ==
    [][(/\ Len(events') = Len(events) + 1
        /\ events'[Len(events')].type # "EventJobUpload")
       => /\ stream' = stream /\ calls' = calls /\ ctx' = ctx
          /\ logged' = logged /\ pc' = pc /\ status' = status /\ syncErr' = syncErr]_vars

\* Sync emitted two events of another type and returned nil: nothing was
\* sent and the RPC completed cleanly.
C12_Witness ==
    /\ Deploy /\ pc = "done" /\ status = StatusOK
    /\ events = <<OtherEvent, OtherEvent>>
    /\ stream = <<>> /\ Sends = <<>>

\* C17: in DeploySpecification, after the project lookup, the calls are
\* FromJobProto and Create of job 1, then of job 2, and so on in request
\* order, each made once and only when every call before it succeeded; Sync
\* is called at most once, only after Create succeeded for every job of the
\* batch, with the project the lookup returned; a clean completion has called
\* it exactly once.
C17_SequentialThenSyncOnce ==
    Deploy =>
    /\ \A k \in 1..Len(calls) :
         /\ (k = 1) = (calls[k].op = "projectRepo.GetByName")
         /\ k > 1 => ~Failed(calls[k - 1])
         /\ calls[k].op \in {"adapter.FromJobProto", "jobSvc.Create"}
            => /\ k \div 2 <= Len(req.jobs)
               /\ calls[k].arg = req.jobs[k \div 2]
               /\ calls[k].op = (IF k % 2 = 0 THEN "adapter.FromJobProto" ELSE "jobSvc.Create")
         /\ calls[k].op = "jobSvc.Sync"
            => /\ k = 2 * Len(req.jobs) + 2
               /\ created = req.jobs
               /\ calls[k].arg = req.projectName /\ calls[k].arg = projSpec
    /\ Len(SyncCalls) <= 1
    /\ status = StatusOK => Len(SyncCalls) = 1

\* A batch of two jobs was adapted and created in order, Sync was called once
\* and the RPC completed cleanly.
C17_Witness ==
    /\ Deploy /\ pc = "done" /\ status = StatusOK
    /\ Len(req.jobs) = 2 /\ created = <<"job-1", "job-2">>
    /\ Len(Adapted) = 2 /\ Len(Creates) = 2 /\ Len(SyncCalls) = 1

\* C18: once DeploySpecification has invoked Sync, the chain holds exactly two
\* observers, the server's progress observer first and the relay observer
\* bound to the request's response stream second, and every event Sync
\* emitted was delivered to both.
C18_TwoObserversChained ==
    (Deploy /\ SyncCalls # <<>>)
    => /\ Len(observers) = 2
       /\ observers[1].name = "sv.progressObserver"
       /\ observers[2].name = "jobSyncObserver" /\ observers[2].stream = "respStream"
       /\ progressEvents = events
       /\ Len(stream) = Len(Uploads)

\* Sync emitted an upload event and an event of another type: the progress
\* observer got both and the relay observer acknowledged the upload.
C18_Witness ==
    /\ Deploy /\ Len(observers) = 2
    /\ Len(events) = 2 /\ events[1].type = "EventJobUpload" /\ events[2] = OtherEvent
    /\ progressEvents = events
    /\ Len(stream) = 1 /\ stream[1].resp.jobName = events[1].job

\* C19: when DeploySpecification aborts on the failure of FromJobProto or
\* Create for job K, the jobs this request persisted are exactly jobs 1..K-1
\* of the batch, they are still in the job store, and the caller has only a
\* terminal error.
C19_PersistedPrefixNotRolledBack ==
    \A j \in 1..Len(calls) :
        (Deploy /\ calls[j].op \in {"adapter.FromJobProto", "jobSvc.Create"} /\ Failed(calls[j]))
        => /\ created = SubSeq(req.jobs, 1, (j \div 2) - 1)
           /\ \A i \in 1..((j \div 2) - 1) : req.jobs[i] \in jobStore
           /\ jobStore = {"job-1"} \cup {created[i] : i \in 1..Len(created)}
           /\ TerminalError /\ stream = <<>> /\ pc = "done"

\* FromJobProto failed for the second job of a batch of two: job-1 stays
\* persisted.
C19_Witness ==
    /\ Deploy /\ pc = "done" /\ Len(req.jobs) = 2
    /\ Len(calls) = 4 /\ calls[4].op = "adapter.FromJobProto" /\ Failed(calls[4])
    /\ created = <<"job-1">> /\ "job-1" \in jobStore

\* ---------------------------------------------------- claims on FromJobSpec
\* The results of the calls that returned no error.
Successes == {i \in 1..Len(mOut) : mOut[i].err.kind = "nil"}

\* The tenant spec section 7 gives the dependency dep of a job of project.
ExpectedTenant(project, dep) ==
    IF dep.Project = "" \/ dep.Project = project.Name THEN project.Name ELSE dep.Project

\* C13: every metadata FromJobSpec returns has Urn = project.Name + "::job/" +
\* job.Name, Name = job.Name and Tenant = project.Name, and the calls repeated
\* on the same input return the same Urn.
C13_UrnIsProjectAndJobName ==
    /\ \A i \in Successes :
        /\ mOut[i].meta.Urn = mIn.project.Name \o "::job/" \o mIn.job.Name
        /\ mOut[i].meta.Name = mIn.job.Name
        /\ mOut[i].meta.Tenant = mIn.project.Name
    /\ \A i, j \in Successes : mOut[i].meta.Urn = mOut[j].meta.Urn

\* Two calls on the test's project and job both returned the test's Urn.
C13_Witness ==
    /\ mIn.project.Name = "humara-projectSpec" /\ mIn.job.Name = "job-1"
    /\ Len(mOut) = 2 /\ Successes = {1, 2}
    /\ mOut[1].meta.Urn = "humara-projectSpec::job/job-1"
    /\ mOut[2].meta.Urn = "humara-projectSpec::job/job-1"

\* C14: the metadata lists one entry per dependency of the job; the entry of a
\* dependency has Job = the dependency's job name, Tenant = the current
\* project's name when the dependency has no project or the current one, and
\* Tenant = the dependency's project and Type = "inter" when the project is a
\* distinct one.
C14_DependencyTenantResolved ==
    \A i \in Successes :
        LET deps == mIn.job.Dependencies
            out == mOut[i].meta.Dependencies
        IN /\ Len(out) = Cardinality(DOMAIN deps)
           /\ \A k \in DOMAIN deps :
                \E n \in 1..Len(out) :
                    /\ out[n].Job = deps[k].Job
                    /\ out[n].Tenant = ExpectedTenant(mIn.project, deps[k])
                    /\ (deps[k].Project \notin {"", mIn.project.Name}) => out[n].Type = "inter"

\* The test's dependency on job-2 of some_other_project was flattened next to a
\* dependency on job-3 without a project.
C14_Witness ==
    /\ mIn.project.Name = "humara-projectSpec"
    /\ DOMAIN mIn.job.Dependencies = {"job-2", "job-3"}
    /\ mIn.job.Dependencies["job-2"].Project = "some_other_project"
    /\ mIn.job.Dependencies["job-3"] = [Project |-> "", Job |-> "job-3", Type |-> "Intra"]
    /\ 1 \in Successes
    /\ \E n \in 1..2 : mOut[1].meta.Dependencies[n] =
            [Tenant |-> "some_other_project", Job |-> "job-2", Type |-> "inter"]
    /\ \E n \in 1..2 : mOut[1].meta.Dependencies[n] =
            [Tenant |-> "humara-projectSpec", Job |-> "job-3", Type |-> "intra"]

\* C15: the task's config and every hook's config come out with the same
\* name/value pairs at the same positions as in the job, and the hooks come out
\* at the positions they have in job.Hooks, as many as the job has.
C15_InsertionOrderPreserved ==
    \A i \in Successes :
        LET job == mIn.job
            meta == mOut[i].meta
        IN /\ Len(meta.Task.Config) = Len(job.Task.Config)
           /\ \A n \in 1..Len(job.Task.Config) :
                /\ meta.Task.Config[n].Name = job.Task.Config[n].Name
                /\ meta.Task.Config[n].Value = job.Task.Config[n].Value
           /\ Len(meta.Hooks) = Len(job.Hooks)
           /\ \A h \in 1..Len(job.Hooks) :
                /\ meta.Hooks[h].Name = job.Hooks[h].Unit.Name
                /\ meta.Hooks[h].DependsOn = job.Hooks[h].Unit.DependsOn
                /\ Len(meta.Hooks[h].Config) = Len(job.Hooks[h].Config)
                /\ \A n \in 1..Len(job.Hooks[h].Config) :
                    /\ meta.Hooks[h].Config[n].Name = job.Hooks[h].Config[n].Name
                    /\ meta.Hooks[h].Config[n].Value = job.Hooks[h].Config[n].Value

\* A job whose task config is not in name order ("do" before "also") and whose
\* first hook depends on its second was flattened, the transporter hook's
\* config with SAMPLE_CONFIG first.
C15_Witness ==
    /\ mIn.job.Task.Config = <<[Name |-> "do", Value |-> "this"],
                               [Name |-> "also", Value |-> "that"]>>
    /\ mIn.job.Hooks = <<PredatorHook, TransporterHook>>
    /\ 1 \in Successes
    /\ mOut[1].meta.Task.Config[1].Name = "do"
    /\ mOut[1].meta.Hooks[1].Name = "predator"
    /\ mOut[1].meta.Hooks[1].DependsOn = <<"transporter">>
    /\ mOut[1].meta.Hooks[2].Name = "transporter"
    /\ mOut[1].meta.Hooks[2].Config[1].Name = "SAMPLE_CONFIG"

\* The fields of a complete JobMetadata.
MetadataFields ==
    {"Urn", "Name", "Tenant", "Version", "Description", "Labels", "Owner", "Task",
     "Schedule", "Behavior", "Dependencies", "Hooks"}

\* C16: every call returns either a complete metadata and no error, with the
\* unit's destination in Task.Destination, or an error and no metadata; when
\* GenerateDestination fails the error returned is that failure, and every
\* call invokes GenerateDestination exactly once.
C16_MetadataOrErrorNeverBoth ==
    /\ \A i \in 1..Len(mOut) :
        /\ \/ /\ mOut[i].err.kind = "nil"
              /\ DOMAIN mOut[i].meta = MetadataFields
              /\ mOut[i].meta.Task.Destination = mIn.job.Task.Unit.dest
           \/ /\ mOut[i].err.kind # "nil"
              /\ mOut[i].meta = NoMetadata
        /\ mIn.job.Task.Unit.destErr.kind # "nil" => mOut[i].err = mIn.job.Task.Unit.destErr
        /\ mIn.job.Task.Unit.destErr.kind = "nil" => mOut[i].err # ErrDestination
    /\ mGen = Len(mOut)

\* Two calls on a job whose unit fails GenerateDestination both returned that
\* failure and no metadata, after one call of GenerateDestination each.
C16_Witness ==
    /\ mIn.job.Task.Unit.destErr = ErrDestination
    /\ Len(mOut) = 2 /\ mGen = 2
    /\ mOut[1] = [meta |-> NoMetadata, err |-> ErrDestination]
    /\ mOut[2] = [meta |-> NoMetadata, err |-> ErrDestination]

====
